---- MODULE Spec2Model ----
(***************************************************************************)
(* A model of play-getwild (src/main.go): the additive synthesizer's       *)
(* oscillator, mixer and envelope, the Piano's note flags and the          *)
(* Context's streaming pipeline (Play / Close against an OpenAL source).   *)
(*                                                                         *)
(* The float32 values of the envelope, of an oscillator's time and of a    *)
(* mixer's sum are modelled exactly.  Each is a multiple of 2^-40 below    *)
(* 2^2, so a value is a pair <<hi, lo>> standing for                       *)
(* (hi * 2^20 + lo) * 2^-40 with 0 <= lo < 2^20; the result of each        *)
(* operation is rounded to 24 significant bits, ties to even, as IEEE-754  *)
(* single precision does.                                                  *)
(***************************************************************************)
EXTENDS Integers, Sequences, FiniteSets, TLC

(***************************************************************************)
(* float32 arithmetic                                                      *)
(***************************************************************************)
RECURSIVE Pow2(_)
Pow2(n) == IF n = 0 THEN 1 ELSE 2 * Pow2(n - 1)

Limb == Pow2(20)                      \* the weight of hi in units of lo

\* the largest power of two that is <= n, for n >= 1
RECURSIVE Pow2Above(_, _)
Pow2Above(n, p) == IF p <= n THEN p ELSE Pow2Above(n, p \div 2)
Pow2Floor(n) == Pow2Above(n, 2 * Limb)

F32Zero == <<0, 0>>
F32One == <<Limb, 0>>

F32Less(a, b) == a[1] < b[1] \/ (a[1] = b[1] /\ a[2] < b[2])

\* round an exact value to the nearest float32, ties to even.  Below 2^-16
\* (hi < 16) every multiple of 2^-40 has at most 24 significant bits.
F32Round(v) ==
  IF v[1] < 16 THEN v
  ELSE LET ulp  == Pow2Floor(v[1]) \div 8
           quo  == v[2] \div ulp
           rem  == v[2] - quo * ulp
           lo   == IF 2 * rem > ulp \/ (2 * rem = ulp /\ quo % 2 = 1)
                   THEN (quo + 1) * ulp ELSE quo * ulp
       IN  IF lo = Limb THEN <<v[1] + 1, 0>> ELSE <<v[1], lo>>

\* float32 a + b
F32Add(a, b) ==
  LET lo == a[2] + b[2]
  IN  F32Round(<<a[1] + b[1] + (lo \div Limb), lo % Limb>>)

\* float32 a - b.  A negative value is <<hi, lo>> with hi <= 0 and lo <= 0.
F32Sub(a, b) ==
  IF F32Less(a, b)
  THEN LET borrow == IF b[2] < a[2] THEN 1 ELSE 0
           mag    == F32Round(<<b[1] - a[1] - borrow, b[2] + borrow * Limb - a[2]>>)
       IN  <<0 - mag[1], 0 - mag[2]>>
  ELSE LET borrow == IF a[2] < b[2] THEN 1 ELSE 0
       IN  F32Round(<<a[1] - b[1] - borrow, a[2] + borrow * Limb - b[2]>>)

(***************************************************************************)
(* float32 constants.  A value in mantissa form is <<m, e>> = m * 2^e with *)
(* 2^23 <= m < 2^24; F32Div is the correctly rounded quotient, which is    *)
(* also how a decimal literal n/d is converted to float32.                 *)
(***************************************************************************)
Mant == Pow2(23)

RECURSIVE F32Norm(_, _)
F32Norm(m, e) == IF m >= Mant THEN <<m, e>> ELSE F32Norm(2 * m, e - 1)

F32FromInt(n) == F32Norm(n, 0)

\* floor(num * 2^bits / den) and the remainder, by shift and subtract
RECURSIVE LongDiv(_, _, _, _)
LongDiv(acc, rem, den, bits) ==
  IF bits = 0 THEN <<acc, rem>>
  ELSE IF 2 * rem >= den
       THEN LongDiv(2 * acc + 1, 2 * rem - den, den, bits - 1)
       ELSE LongDiv(2 * acc, 2 * rem, den, bits - 1)

F32Div(a, b) ==
  LET bits == IF a[1] >= b[1] THEN 23 ELSE 24
      qr   == LongDiv(a[1] \div b[1], a[1] % b[1], b[1], bits)
      up   == 2 * qr[2] > b[1] \/ (2 * qr[2] = b[1] /\ qr[1] % 2 = 1)
      m    == IF up THEN qr[1] + 1 ELSE qr[1]
      e    == a[2] - b[2] - bits
  IN  IF m = 2 * Mant THEN <<Mant, e + 1>> ELSE <<m, e>>

\* the decimal literal n/d as a float32
F32Lit(n, d) == F32Div(F32FromInt(n), F32FromInt(d))

\* mantissa form to the <<hi, lo>> form (the value is a multiple of 2^-40)
F32Fixed(a) ==
  LET s == a[2] + 40
  IN  <<a[1] \div Pow2(20 - s), (a[1] % Pow2(20 - s)) * Pow2(s)>>

SampleRate == 10000

\* dt := 1.0 / float32(SampleRate)
dt == F32Div(F32FromInt(1), F32FromInt(SampleRate))

\* a wrong time constant: dt / 0.1
attackdSlow == F32Fixed(F32Div(dt, F32Lit(1, 10)))

attackd == F32Fixed(F32Div(dt, F32Lit(1, 100)))      \* dt / 0.01
dekeyd == F32Fixed(F32Div(dt, F32Lit(3, 100)))       \* dt / 0.03
sustainlevel == F32Fixed(F32Lit(3, 10))              \* float32(0.3)
sustaind == F32Fixed(F32Div(dt, F32FromInt(7)))      \* dt / 7.0
released == F32Fixed(F32Div(dt, F32Lit(8, 10)))      \* dt / 0.8

\* GenEnvelope without the `gain = 1.0` clamp at the peak
EnvelopeTickNoClamp(press, env) ==
  IF press
  THEN IF ~env.top
       THEN LET g == F32Add(env.gain, attackd)
            IN  [top |-> F32Less(F32One, g), gain |-> g]
       ELSE LET g == IF F32Less(sustainlevel, env.gain)
                     THEN F32Sub(env.gain, dekeyd)
                     ELSE F32Sub(env.gain, sustaind)
            IN  [top |-> TRUE, gain |-> IF F32Less(g, F32Zero) THEN F32Zero ELSE g]
  ELSE LET g == F32Sub(env.gain, released)
       IN  [top |-> FALSE, gain |-> IF F32Less(g, F32Zero) THEN F32Zero ELSE g]

\* GenEnvelope with the release ramp's sign slipped: gain += released
EnvelopeTickReleaseUp(press, env) ==
  IF press
  THEN IF ~env.top
       THEN LET g == F32Add(env.gain, attackd)
            IN  IF F32Less(F32One, g)
                THEN [top |-> TRUE, gain |-> F32One]
                ELSE [top |-> FALSE, gain |-> g]
       ELSE LET g == IF F32Less(sustainlevel, env.gain)
                     THEN F32Sub(env.gain, dekeyd)
                     ELSE F32Sub(env.gain, sustaind)
            IN  [top |-> TRUE, gain |-> IF F32Less(g, F32Zero) THEN F32Zero ELSE g]
  ELSE LET g == F32Add(env.gain, released)
       IN  [top |-> FALSE, gain |-> IF F32Less(g, F32Zero) THEN F32Zero ELSE g]

\* GenEnvelope with one decay rate at the peak: no slower sustain decay
EnvelopeTickNoSustain(press, env) ==
  IF press
  THEN IF ~env.top
       THEN LET g == F32Add(env.gain, attackd)
            IN  IF F32Less(F32One, g)
                THEN [top |-> TRUE, gain |-> F32One]
                ELSE [top |-> FALSE, gain |-> g]
       ELSE LET g == F32Sub(env.gain, dekeyd)
            IN  [top |-> TRUE, gain |-> IF F32Less(g, F32Zero) THEN F32Zero ELSE g]
  ELSE LET g == F32Sub(env.gain, released)
       IN  [top |-> FALSE, gain |-> IF F32Less(g, F32Zero) THEN F32Zero ELSE g]

\* GenEnvelope without `top = false` on a not-pressed invocation
EnvelopeTickKeepTop(press, env) ==
  IF press
  THEN IF ~env.top
       THEN LET g == F32Add(env.gain, attackd)
            IN  IF F32Less(F32One, g)
                THEN [top |-> TRUE, gain |-> F32One]
                ELSE [top |-> FALSE, gain |-> g]
       ELSE LET g == IF F32Less(sustainlevel, env.gain)
                     THEN F32Sub(env.gain, dekeyd)
                     ELSE F32Sub(env.gain, sustaind)
            IN  [top |-> TRUE, gain |-> IF F32Less(g, F32Zero) THEN F32Zero ELSE g]
  ELSE LET g == F32Sub(env.gain, released)
       IN  [top |-> env.top, gain |-> IF F32Less(g, F32Zero) THEN F32Zero ELSE g]

(***************************************************************************)
(* GenEnvelope: one invocation of the closure.  env = [top, gain] is the   *)
(* closure's private state, press the value of *press it reads.            *)
(***************************************************************************)
EnvelopeTick(press, env) ==
  IF press
  THEN IF ~env.top
       THEN LET g == F32Add(env.gain, attackd)
            IN  IF F32Less(F32One, g)
                THEN [top |-> TRUE, gain |-> F32One]
                ELSE [top |-> FALSE, gain |-> g]
       ELSE LET g == IF F32Less(sustainlevel, env.gain)
                     THEN F32Sub(env.gain, dekeyd)
                     ELSE F32Sub(env.gain, sustaind)
            IN  [top |-> TRUE, gain |-> IF F32Less(g, F32Zero) THEN F32Zero ELSE g]
  ELSE LET g == F32Sub(env.gain, released)
       IN  [top |-> FALSE, gain |-> IF F32Less(g, F32Zero) THEN F32Zero ELSE g]

(***************************************************************************)
(* Bounds of the model                                                     *)
(***************************************************************************)
NumNotes == 2          \* len(freqs) of the Piano
NumCallers == 2        \* goroutines calling Play / Close
MaxCalls == 4          \* Play and Close calls issued in a run
MaxDevSteps == 2       \* consumption steps of the device in a run
MaxToggles == 3        \* NoteOn / NoteOff flips in a per-sample run
MaxDwell == 8001       \* samples drawn between two flips
MaxHold == 21081       \* samples drawn while the first key press is held
MaxChildren == 3       \* child Signals of a Multiplex on its own
MaxMixTicks == 2       \* invocations of a Multiplex on its own
MaxPeriods == 1        \* periods a GenOscillator on its own is run for

(***************************************************************************)
(* Program constants                                                       *)
(***************************************************************************)
QUEUE == 500
BufBytes == 2048

Notes == 0 .. NumNotes - 1
Callers == 1 .. NumCallers
\* the q arguments of Play: main passes 70 and 100 (among others)
Qs == {70, 100}
\* how many buffers the device finishes in one step
ConsumeChunks == {1, QUEUE, 2 * QUEUE}

\* 0.01 s and 0.8 s worth of samples
AttackTicks == SampleRate \div 100
ReleaseTicks == (SampleRate * 8) \div 10
\* the sample counts after which the driver may flip a key
DwellSet == {1, AttackTicks, 4 * AttackTicks, ReleaseTicks}

VARIABLES
  notes,      \* Piano.notes
  samples,    \* invocations of the top-level Signal so far; every oscillator
              \* and envelope closure is invoked once per invocation
  top, gain,  \* per note: the envelope closure's private state
  scaled,     \* float32(92767) * f of the last sample drawn, as an integer
  dwell,      \* per-sample run: samples drawn since the last flip
  toggles,    \* per-sample run: flips so far
  held,       \* per-sample run: the dwell at the last flip
  queue,      \* Context.queue
  devQueue,   \* the source's buffer queue inside the device
  processed,  \* how many buffers at the head of devQueue the device has played
  srcState,   \* "initial", "playing" or "stopped"
  nextBuf,    \* the next handle al.GenBuffers hands out
  mutex,      \* Context.RWMutex: the set of callers holding it
  pc,         \* per caller: where it is in Play or Close
  arg,        \* per caller: the q of its Play call
  rm,         \* per caller: the slice rm of its Play call
  calls,      \* Play and Close calls issued
  devSteps,   \* consumption steps taken
  closeRun,   \* StopSources requests since the last PlaySources request
  iters,      \* per caller: iterations of the refill loop in its Play call
  len0,       \* per caller: the len(c.queue) its Play call printed
  played,     \* per caller: PlaySources requests of its Play call
  bufData,    \* the buffers that were given PCM data and not deleted
  fs,         \* a Multiplex on its own: per child, how often it was invoked
  outs,       \* per child: what it returned on the last invocation
  res,        \* what the Multiplex returned on the last invocation
  freq,       \* a GenOscillator closure on its own: its frequency
  t,          \* its time t
  ticks,      \* how often it was invoked
  mixTicks    \* how often the Multiplex on its own was invoked

vars == <<notes, samples, top, gain, scaled, dwell, toggles, held, queue, devQueue,
          processed, srcState, nextBuf, mutex, pc, arg, rm, calls, devSteps,
          closeRun, iters, len0, played, bufData, fs, outs, res, freq, t,
          ticks, mixTicks>>

pianoVars == <<notes, samples, top, gain, scaled>>
runVars == <<dwell, toggles, held>>
callVars == <<iters, len0, played>>
ctxVars == <<queue, devQueue, processed, srcState, nextBuf, mutex, pc, arg, rm,
             calls, devSteps, closeRun, callVars, bufData>>
mixVars == <<fs, outs, res, mixTicks>>
oscVars == <<freq, t, ticks>>
unitVars == <<mixVars, oscVars>>

\* NewPiano and NewContext
ProgInit ==
  /\ notes = [k \in Notes |-> FALSE]
  /\ samples = 0
  /\ top = [k \in Notes |-> FALSE]
  /\ gain = [k \in Notes |-> F32Zero]
  /\ scaled = 0
  /\ dwell = 0 /\ toggles = 0 /\ held = 0
  /\ queue = <<>>
  /\ devQueue = <<>>
  /\ processed = 0
  /\ srcState = "initial"
  /\ nextBuf = 1
  /\ mutex = {}
  /\ pc = [c \in Callers |-> "idle"]
  /\ arg = [c \in Callers |-> 0]
  /\ rm = [c \in Callers |-> <<>>]
  /\ calls = 0 /\ devSteps = 0 /\ closeRun = 0
  /\ iters = [c \in Callers |-> 0]
  /\ len0 = [c \in Callers |-> 0]
  /\ played = [c \in Callers |-> 0]
  /\ bufData = {}

\* Multiplex(fs...) over n child Signals, none invoked yet
MixerInit(n) ==
  /\ fs = [i \in 1 .. n |-> 0]
  /\ outs = [i \in 1 .. n |-> F32Zero]
  /\ res = F32Zero
  /\ mixTicks = 0

\* a frequency is a ratio <<n, d>> of integers; 440.0 is one of main's notes
BaseFreq == <<440, 1>>

\* GenOscillator(f): t := float32(0.0)
OscInit(f) ==
  /\ freq = f
  /\ t = F32Zero
  /\ ticks = 0

\* the program's Multiplex is the one NewPiano builds over the notes
Init == ProgInit /\ MixerInit(NumNotes) /\ OscInit(BaseFreq)

(***************************************************************************)
(* Piano                                                                   *)
(***************************************************************************)
\* a NoteOn that presses every key
NoteOnAll(key) == notes' = [k \in Notes |-> TRUE]

NoteOn(key) == notes' = [notes EXCEPT ![key] = TRUE]

NoteOff(key) == notes' = [notes EXCEPT ![key] = FALSE]

(***************************************************************************)
(* The device (OpenAL source), seen through the calls main.go makes        *)
(***************************************************************************)
\* c.source.BuffersProcessed()
BuffersProcessed == processed

\* al.GenBuffers(q): q fresh handles
GenBuffers(q) == [i \in 1 .. q |-> nextBuf + i - 1]

\* a BufferData that reaches every buffer allocated so far
BufferDataAll(b) == bufData' = bufData \cup (1 .. b)

\* b.BufferData(Fmt, buf, SampleRate): buffer b holds PCM data
BufferData(b) == bufData' = bufData \cup {b}

\* a stop request that toggles the source instead
StopSourcesToggle(st) == IF st = "stopped" THEN "playing" ELSE "stopped"

\* al.StopSources(c.source)
StopSources(st) == "stopped"

\* a play request that leaves the source as it is
PlaySourcesKeep(st) == st

\* al.PlaySources(c.source)
PlaySources(st) == "playing"

\* the device finishes playing k more of the queued buffers
DeviceConsume(k) ==
  /\ srcState = "playing"
  /\ devSteps < MaxDevSteps
  /\ processed + k <= Len(devQueue)
  /\ processed' = processed + k
  /\ devSteps' = devSteps + 1
  /\ UNCHANGED <<pianoVars, runVars, unitVars, callVars, bufData, queue,
                 devQueue, srcState, nextBuf, mutex, pc, arg, rm, calls,
                 closeRun>>

(***************************************************************************)
(* Context.Play and Context.Close, one caller step at a time.  The mutex   *)
(* is held from c.Lock() to the deferred c.Unlock(), so only the device    *)
(* and the callers' requests interleave with the steps of a call.          *)
(***************************************************************************)
Alive == \A c \in Callers : pc[c] # "panic"

\* a Lock that never waits
LockNoWait(m) == TRUE

\* c.Lock() returns only when no one holds the mutex
LockFree(m) == m = {}

\* a goroutine calls pctx.Play(q)
CallPlay(c, q) ==
  /\ Alive
  /\ pc[c] = "idle"
  /\ calls < MaxCalls
  /\ calls' = calls + 1
  /\ pc' = [pc EXCEPT ![c] = "play_lock"]
  /\ arg' = [arg EXCEPT ![c] = q]
  /\ UNCHANGED <<pianoVars, runVars, unitVars, callVars, bufData, queue,
                 devQueue, processed, srcState, nextBuf, mutex, rm, devSteps,
                 closeRun>>

\* c.Lock(); defer c.Unlock()
PlayLock(c) ==
  /\ Alive
  /\ pc[c] = "play_lock"
  /\ LockFree(mutex)
  /\ mutex' = {c}
  /\ pc' = [pc EXCEPT ![c] = "play_reclaim"]
  /\ UNCHANGED <<pianoVars, runVars, unitVars, callVars, bufData, queue,
                 devQueue, processed, srcState, nextBuf, arg, rm, calls,
                 devSteps, closeRun>>

\* c.queue[:n]: the first n entries of the queue's backing array; the
\* entries past len(c.queue) are the zero handles append left there
QueueHead(n) == [i \in 1 .. n |-> IF i <= Len(queue) THEN queue[i] ELSE 0]

\* n := c.source.BuffersProcessed(); if n > 0 { rm := c.queue[:n];
\* c.queue = nil; c.source.UnqueueBuffers(rm...); al.DeleteBuffers(rm...) }
\* UnqueueBuffers takes len(rm) buffers off the head of the source's queue.
PlayReclaim(c) ==
  /\ Alive
  /\ pc[c] = "play_reclaim"
  /\ LET n == BuffersProcessed
     IN  IF n > 0
         THEN /\ rm' = [rm EXCEPT ![c] = QueueHead(n)]
              /\ queue' = <<>>
              /\ bufData' = bufData \ {QueueHead(n)[i] : i \in 1 .. n}
              /\ devQueue' = SubSeq(devQueue, n + 1, Len(devQueue))
              /\ processed' = processed - n
         ELSE UNCHANGED <<rm, queue, devQueue, processed, bufData>>
  /\ len0' = [len0 EXCEPT ![c] = Len(queue')]
  /\ pc' = [pc EXCEPT ![c] = "play_refill"]
  /\ UNCHANGED <<pianoVars, runVars, unitVars, iters, played, srcState,
                 nextBuf, mutex, arg, calls, devSteps, closeRun>>

\* c.queue[:n] with n beyond the capacity of c.queue panics; the deferred
\* Unlock runs and the process dies.  The capacity append chose is not
\* fixed by the source, so past len(c.queue) either outcome may happen.
PlayReclaimPanic(c) ==
  /\ Alive
  /\ pc[c] = "play_reclaim"
  /\ BuffersProcessed > Len(queue)
  /\ pc' = [pc EXCEPT ![c] = "panic"]
  /\ mutex' = {}
  /\ UNCHANGED <<pianoVars, runVars, unitVars, callVars, bufData, queue,
                 devQueue, processed, srcState, nextBuf, arg, rm, calls,
                 devSteps, closeRun>>

\* one iteration of `for len(c.queue) < QUEUE`: GenBuffers(q), fill one
\* PCM buffer with BufBytes/2 samples of c.oscillator(), QueueBuffers(b...),
\* c.queue = append(c.queue, b...)
PlayRefill(c) ==
  /\ Alive
  /\ pc[c] = "play_refill"
  /\ Len(queue) < QUEUE
  /\ LET b == GenBuffers(arg[c])
     IN  /\ nextBuf' = nextBuf + arg[c]
         /\ samples' = samples + BufBytes \div 2
         /\ devQueue' = devQueue \o b
         /\ BufferData(b[1])
         /\ queue' = queue \o b
  /\ iters' = [iters EXCEPT ![c] = iters[c] + 1]
  /\ UNCHANGED <<notes, top, gain, scaled, runVars, unitVars, len0, played, processed,
                 srcState, mutex, pc, arg, rm, calls, devSteps, closeRun>>

\* the loop ends; al.PlaySources(c.source)
PlayStart(c) ==
  /\ Alive
  /\ pc[c] = "play_refill"
  /\ ~(Len(queue) < QUEUE)
  /\ srcState' = PlaySources(srcState)
  /\ closeRun' = 0
  /\ played' = [played EXCEPT ![c] = played[c] + 1]
  /\ pc' = [pc EXCEPT ![c] = "play_unlock"]
  /\ UNCHANGED <<pianoVars, runVars, unitVars, iters, len0, bufData, queue,
                 devQueue, processed, nextBuf, mutex, arg, rm, calls,
                 devSteps>>

\* Play returns: the deferred c.Unlock(); the call's q, rm and counters are gone
PlayReturn(c) ==
  /\ Alive
  /\ pc[c] = "play_unlock"
  /\ mutex' = {}
  /\ pc' = [pc EXCEPT ![c] = "idle"]
  /\ arg' = [arg EXCEPT ![c] = 0]
  /\ rm' = [rm EXCEPT ![c] = <<>>]
  /\ iters' = [iters EXCEPT ![c] = 0]
  /\ len0' = [len0 EXCEPT ![c] = 0]
  /\ played' = [played EXCEPT ![c] = 0]
  /\ UNCHANGED <<pianoVars, runVars, unitVars, bufData, queue, devQueue,
                 processed, srcState, nextBuf, calls, devSteps, closeRun>>

\* a goroutine calls pctx.Close()
CallClose(c) ==
  /\ Alive
  /\ pc[c] = "idle"
  /\ calls < MaxCalls
  /\ calls' = calls + 1
  /\ pc' = [pc EXCEPT ![c] = "close_lock"]
  /\ UNCHANGED <<pianoVars, runVars, unitVars, callVars, bufData, queue,
                 devQueue, processed, srcState, nextBuf, mutex, arg, rm,
                 devSteps, closeRun>>

\* c.Lock(); defer c.Unlock()
CloseLock(c) ==
  /\ Alive
  /\ pc[c] = "close_lock"
  /\ LockFree(mutex)
  /\ mutex' = {c}
  /\ pc' = [pc EXCEPT ![c] = "close_stop"]
  /\ UNCHANGED <<pianoVars, runVars, unitVars, callVars, bufData, queue,
                 devQueue, processed, srcState, nextBuf, arg, rm, calls,
                 devSteps, closeRun>>

\* a Close that also drops the queue
CloseStopFlush(c) ==
  /\ Alive
  /\ pc[c] = "close_stop"
  /\ srcState' = StopSources(srcState)
  /\ queue' = <<>>
  /\ closeRun' = closeRun + 1
  /\ pc' = [pc EXCEPT ![c] = "close_unlock"]
  /\ UNCHANGED <<pianoVars, runVars, unitVars, callVars, bufData, devQueue,
                 processed, nextBuf, mutex, arg, rm, calls, devSteps>>

\* al.StopSources(c.source)
CloseStop(c) ==
  /\ Alive
  /\ pc[c] = "close_stop"
  /\ srcState' = StopSources(srcState)
  /\ closeRun' = closeRun + 1
  /\ pc' = [pc EXCEPT ![c] = "close_unlock"]
  /\ UNCHANGED <<pianoVars, runVars, unitVars, callVars, bufData, queue,
                 devQueue, processed, nextBuf, mutex, arg, rm, calls,
                 devSteps>>

\* Close returns: the deferred c.Unlock()
CloseReturn(c) ==
  /\ Alive
  /\ pc[c] = "close_unlock"
  /\ mutex' = {}
  /\ pc' = [pc EXCEPT ![c] = "idle"]
  /\ UNCHANGED <<pianoVars, runVars, unitVars, callVars, bufData, queue,
                 devQueue, processed, srcState, nextBuf, arg, rm, calls,
                 devSteps, closeRun>>

\* pianoPlayer.NoteOn(key) / NoteOff(key), from any goroutine
KeyOn(key) ==
  /\ Alive
  /\ NoteOn(key)
  /\ UNCHANGED <<samples, top, gain, scaled, runVars, unitVars, ctxVars>>

KeyOff(key) ==
  /\ Alive
  /\ NoteOff(key)
  /\ UNCHANGED <<samples, top, gain, scaled, runVars, unitVars, ctxVars>>

Next ==
  \/ \E c \in Callers, q \in Qs : CallPlay(c, q)
  \/ \E c \in Callers : PlayLock(c)
  \/ \E c \in Callers : PlayReclaim(c)
  \/ \E c \in Callers : PlayReclaimPanic(c)
  \/ \E c \in Callers : PlayRefill(c)
  \/ \E c \in Callers : PlayStart(c)
  \/ \E c \in Callers : PlayReturn(c)
  \/ \E c \in Callers : CallClose(c)
  \/ \E c \in Callers : CloseLock(c)
  \/ \E c \in Callers : CloseStop(c)
  \/ \E c \in Callers : CloseReturn(c)
  \/ \E key \in Notes : KeyOn(key)
  \/ \E key \in Notes : KeyOff(key)
  \/ \E k \in ConsumeChunks : DeviceConsume(k)

Spec == Init /\ [][Next]_vars

\* A goroutine inside Play or Close keeps running; a goroutine waiting in
\* c.Lock() gets the mutex if it is free again and again.
Fairness ==
  \A c \in Callers :
    /\ WF_vars(PlayReclaim(c) \/ PlayReclaimPanic(c))
    /\ WF_vars(PlayRefill(c))
    /\ WF_vars(PlayStart(c))
    /\ WF_vars(PlayReturn(c))
    /\ WF_vars(CloseStop(c))
    /\ WF_vars(CloseReturn(c))
    /\ SF_vars(PlayLock(c))
    /\ SF_vars(CloseLock(c))

SpecFair == Spec /\ Fairness

(***************************************************************************)
(* The value of a sample.  The phase k * t of an oscillator of frequency f *)
(* that was invoked n times is f * n / SampleRate turns (the wrap of t     *)
(* takes whole periods off).  Sin is the library's sine to within 0.0017   *)
(* (Bhaskara's rational approximation), in units of 1/10000; a sum of      *)
(* partials is kept in the same unit and a gain to 14 binary places.       *)
(***************************************************************************)
\* main's notes 440.0, 466.16, 493.88 and 523.25, in whole Hz
MainFreqs == <<440, 466, 494, 523>>
NoteFreq(k) == MainFreqs[k + 1]

\* the partials j = 1 .. Harmonics of NewPiano
Harmonics == 8
\* float32(92767)
Amplitude == 92767

\* a / b rounded towards zero, as the conversion of a float to an integer is
TruncDiv(a, b) == IF a >= 0 THEN a \div b ELSE 0 - ((0 - a) \div b)

\* f32.Sin at phase p / SampleRate turns, in units of 1/10000
Sin(p) ==
  LET half == SampleRate \div 2
      x    == IF p < half THEN p ELSE p - half
      num  == x * (half - x)
      mag  == (160 * num) \div ((5 * half * half - 4 * num) \div 1000)
  IN  IF p < half THEN mag ELSE 0 - mag

\* GenOscillator(f): res := f32.Sin(k * t) on the invocation after n earlier ones
Osc(f, n) == Sin((f * n) % SampleRate)

\* G(0.5/j, GenOscillator(f*j)) for j = 1 .. m, summed, in units of 1/(1680 * 10000)
RECURSIVE Partials(_, _, _)
Partials(f, n, m) ==
  IF m = 0 THEN 0 ELSE Partials(f, n, m - 1) + (840 \div m) * Osc(f * m, n)

\* Multiplex(base...): the partials and G(0.3, GenOscillator(f+2)), in units of 1/10000
Stack(f, n) == TruncDiv(Partials(f, n, Harmonics) + 504 * Osc(f + 2, n), 1680)

\* G(0.4, GenEnvelope(&p.notes[k], osc)) with the envelope's gain g, in units of 1/10000
NoteSample(k, g, n) ==
  TruncDiv(TruncDiv(4 * (g[1] \div 64) * Stack(NoteFreq(k), n), 10), Pow2(14))

\* Multiplex(envelopes...) over the notes 0 .. k
RECURSIVE PianoSample(_, _, _)
PianoSample(k, g, n) ==
  IF k < 0 THEN 0 ELSE PianoSample(k - 1, g, n) + NoteSample(k, g[k], n)

\* float32(92767) * f before the conversion to int16
Scaled(g, n) == TruncDiv(Amplitude * PianoSample(NumNotes - 1, g, n), 10000)

(***************************************************************************)
(* The per-sample view: Play's sample loop taken one c.oscillator() call   *)
(* at a time, with the driver flipping key 0 between calls.  The top-level *)
(* Signal is Multiplex over the notes of G(0.4, GenEnvelope(&notes[k], _)),*)
(* so one invocation invokes every note's envelope closure once.           *)
(***************************************************************************)
SignalTick ==
  /\ dwell < MaxDwell \/ (toggles = 1 /\ notes[0] /\ dwell < MaxHold)
  /\ samples' = samples + 1
  /\ top' = [k \in Notes |->
               EnvelopeTick(notes[k], [top |-> top[k], gain |-> gain[k]]).top]
  /\ gain' = [k \in Notes |->
               EnvelopeTick(notes[k], [top |-> top[k], gain |-> gain[k]]).gain]
  /\ scaled' = Scaled(gain', samples)
  /\ dwell' = dwell + 1
  /\ UNCHANGED <<notes, toggles, held, ctxVars, unitVars>>

\* pianoPlayer.NoteOn(0) after a dwell of DwellSet samples
KeyDown ==
  /\ ~notes[0]
  /\ toggles < MaxToggles
  /\ dwell \in DwellSet
  /\ NoteOn(0)
  /\ toggles' = toggles + 1
  /\ held' = dwell
  /\ dwell' = 0
  /\ UNCHANGED <<samples, top, gain, scaled, ctxVars, unitVars>>

\* pianoPlayer.NoteOff(0) after a dwell of DwellSet samples
KeyUp ==
  /\ notes[0]
  /\ toggles < MaxToggles
  /\ dwell \in DwellSet
  /\ NoteOff(0)
  /\ toggles' = toggles + 1
  /\ held' = dwell
  /\ dwell' = 0
  /\ UNCHANGED <<samples, top, gain, scaled, ctxVars, unitVars>>

NextEnv == SignalTick \/ KeyDown \/ KeyUp

SpecEnv == Init /\ [][NextEnv]_vars

(***************************************************************************)
(* Multiplex on its own, over any number of child Signals.  A child is any *)
(* Signal: it is invoked, and returns some float32 of MixOuts.             *)
(***************************************************************************)
\* 2^-24, half a unit in the last place of 1.0
F32HalfUlp == <<0, Pow2(16)>>

MixOuts == {F32Zero, F32HalfUlp, sustainlevel, F32One}

\* res := float32(0); for _, osc := range fs { res += osc() }, from child i on
RECURSIVE MultiplexFrom(_, _, _)
MultiplexFrom(o, i, acc) ==
  IF i > Len(o) THEN acc ELSE MultiplexFrom(o, i + 1, F32Add(acc, o[i]))

\* a Multiplex that leaves out its first child
MultiplexSkipFirst(o) == MultiplexFrom(o, 2, F32Zero)

Multiplex(o) == MultiplexFrom(o, 1, F32Zero)

\* one invocation of the closure Multiplex returns
MixTick ==
  /\ mixTicks < MaxMixTicks
  /\ \E o \in [1 .. Len(fs) -> MixOuts] :
       /\ outs' = o
       /\ res' = Multiplex(o)
  /\ fs' = [i \in 1 .. Len(fs) |-> fs[i] + 1]
  /\ mixTicks' = mixTicks + 1
  /\ UNCHANGED <<pianoVars, runVars, ctxVars, oscVars>>

NextMix == MixTick

\* the Multiplex is built over any number of children
InitMix ==
  /\ ProgInit /\ OscInit(BaseFreq)
  /\ \E n \in 0 .. MaxChildren : MixerInit(n)

SpecMix == InitMix /\ [][NextMix]_vars

(***************************************************************************)
(* GenOscillator on its own, for a frequency of OscFreqs                   *)
(***************************************************************************)
OscFreqs == {<<1, 2>>, <<100, 1>>, <<440, 1>>, <<442, 1>>, <<3520, 1>>}

\* dt := 1.0 / float32(SampleRate), as a <<hi, lo>> value
dtFixed == F32Fixed(dt)

\* T := 1.0 / freq
OscT(f) == F32Fixed(F32Div(F32FromInt(1), F32Lit(f[1], f[2])))

\* t += dt; if t > T { t -= T }
OscStep(f, time) ==
  LET next == F32Add(time, dtFixed)
  IN  IF F32Less(OscT(f), next) THEN F32Sub(next, OscT(f)) ELSE next

\* round(SampleRate / f)
Period(f) == (2 * SampleRate * f[2] + f[1]) \div (2 * f[1])

\* one invocation of the closure GenOscillator returns
OscTick ==
  /\ ticks < MaxPeriods * Period(freq)
  /\ t' = OscStep(freq, t)
  /\ ticks' = ticks + 1
  /\ UNCHANGED <<pianoVars, runVars, ctxVars, mixVars, freq>>

NextOsc == OscTick

\* the oscillator is built for any frequency of OscFreqs
InitOsc ==
  /\ ProgInit /\ MixerInit(NumNotes)
  /\ \E f \in OscFreqs : OscInit(f)

SpecOsc == InitOsc /\ [][NextOsc]_vars

(***************************************************************************)
(* Claims about the streaming pipeline (Spec)                              *)
(***************************************************************************)
\* caller c moves from `from` to another place in this step
Steps(c, from) == pc[c] = from /\ pc'[c] # from

\* C1: whenever a Play call returns, the queue holds at most QUEUE buffers.
C1_QueueWithinCap ==
  \A c \in Callers : pc[c] = "play_unlock" => Len(queue) <= QUEUE

\* C2: while the device has processed nothing, the Play calls made from the
\* empty queue have allocated exactly QUEUE buffers in total whenever one of
\* them returns.
C2_ExactlyQueueAllocated ==
  \A c \in Callers :
    (pc[c] = "play_unlock" /\ devSteps = 0) =>
      (nextBuf - 1 = QUEUE /\ Len(queue) = QUEUE)

\* C3: a reclaim step that sees n > 0 processed buffers hands the first n
\* entries of the queue to the device and keeps the entries after position n,
\* in order, in the queue.
C3_ReclaimKeepsTail ==
  [][\A c \in Callers :
       (Steps(c, "play_reclaim") /\ pc'[c] = "play_refill" /\ processed > 0) =>
         /\ processed <= Len(queue)
         /\ rm'[c] = SubSeq(queue, 1, processed)
         /\ queue' = SubSeq(queue, processed + 1, Len(queue))]_vars

\* C4: if QUEUE or more buffers are still unconsumed on the device after a
\* Play's reclaim step, that Play allocates nothing (its refill loop does not
\* run).
C4_Backpressure ==
  [][\A c \in Callers :
       (Steps(c, "play_reclaim") /\ pc'[c] = "play_refill"
          /\ Len(devQueue') - processed' >= QUEUE) =>
         ~(Len(queue') < QUEUE)]_vars

\* between c.Lock() and the deferred c.Unlock() of Play or Close
InCall(c) ==
  pc[c] \in {"play_reclaim", "play_refill", "play_unlock", "close_stop",
             "close_unlock"}

\* C5: no two callers are inside Play or Close at once, and the caller
\* inside is the one holding the mutex.
C5_MutualExclusion ==
  \A c, d \in Callers :
    /\ (c # d => ~(InCall(c) /\ InCall(d)))
    /\ (InCall(c) => mutex = {c})

\* a Play is in the middle of its refill while another call waits for the lock
C5_Witness ==
  \E c, d \in Callers :
    /\ pc[c] = "play_refill" /\ queue # <<>> /\ Len(queue) < QUEUE
    /\ pc[d] \in {"play_lock", "close_lock"}

\* C6: a Close that directly follows a Close ends without an error and
\* leaves the source state, the queue and the device's queue as they were.
C6_CloseIdempotent ==
  [][\A c \in Callers :
       (Steps(c, "close_stop") /\ closeRun >= 1) =>
         /\ pc'[c] = "close_unlock"
         /\ srcState' = srcState
         /\ UNCHANGED <<queue, devQueue, processed, nextBuf>>]_vars

\* a second Close in a row has stopped a source that holds queued buffers
C6_Witness ==
  /\ closeRun >= 2
  /\ queue # <<>>
  /\ \E c \in Callers : pc[c] = "close_unlock"

\* C7: no step of Close changes the queue, the note flags or the Signal
\* state, and the queue changes in the reclaim and refill steps of Play only.
C7_CloseFrame ==
  [][/\ \A c \in Callers :
          (Steps(c, "close_lock") \/ Steps(c, "close_stop")
             \/ Steps(c, "close_unlock")) =>
            UNCHANGED <<queue, notes, samples, top, gain>>
     /\ queue' # queue =>
          \E c \in Callers : Steps(c, "play_reclaim") \/ pc[c] = "play_refill"]_vars

\* a Close has stopped the source with buffers queued, samples drawn and a
\* key pressed
C7_Witness ==
  /\ \E c \in Callers : pc[c] = "close_unlock"
  /\ queue # <<>>
  /\ samples > 0
  /\ \E k \in Notes : notes[k]

\* C12: NoteOn(key) sets notes[key], NoteOff(key) clears it, and a step that
\* changes a note flag changes that one flag only: the other flags, the number
\* of notes, the envelope and oscillator state and the Context's queue stay.
C12_NoteFrame ==
  [][/\ \A key \in Notes :
          /\ KeyOn(key) => notes'[key]
          /\ KeyOff(key) => ~notes'[key]
     /\ notes' # notes =>
          /\ DOMAIN notes' = DOMAIN notes
          /\ \E key \in Notes :
               /\ notes'[key] = ~notes[key]
               /\ \A k \in Notes \ {key} : notes'[k] = notes[k]
          /\ UNCHANGED <<samples, top, gain, queue, devQueue, nextBuf>>]_vars

\* one key is down and another is up while the queue holds buffers
C12_Witness ==
  /\ \E i, k \in Notes : notes[i] /\ ~notes[k]
  /\ queue # <<>>
  /\ samples > 0

\* C16: an iteration of Play(q)'s refill loop allocates the q handles
\* nextBuf .. nextBuf + q - 1, draws 1024 samples from the Signal, gives PCM
\* data to the first of the q buffers only, and appends all q, in allocation
\* order, to the source's queue and to the Context's queue.
C16_RefillIteration ==
  [][\A c \in Callers :
       (pc[c] = "play_refill" /\ iters'[c] = iters[c] + 1) =>
         LET q == arg[c]
             b == [i \in 1 .. q |-> nextBuf + i - 1]
         IN  /\ nextBuf' = nextBuf + q
             /\ samples' = samples + 1024
             /\ bufData \subseteq bufData'
             /\ bufData' \ bufData = {b[1]}
             /\ devQueue' = devQueue \o b
             /\ queue' = queue \o b]_vars

\* a Play(70) has run two iterations: 140 buffers queued, two of them with data
C16_Witness ==
  \E c \in Callers :
    /\ pc[c] = "play_refill" /\ arg[c] = 70 /\ iters[c] = 2
    /\ bufData = {1, 71}
    /\ Len(queue) = 140

C19_ProcessedWithinQueue ==
  \A c \in Callers :
    /\ pc[c] = "play_reclaim" => BuffersProcessed <= Len(queue)
    /\ pc[c] # "panic"
    /\ \A i \in DOMAIN rm[c] : rm[c][i] # 0

\* ceil((QUEUE - len(c.queue)) / q) for the queue the loop starts from
LoopBound(c) ==
  IF len0[c] < QUEUE THEN (QUEUE - len0[c] + arg[c] - 1) \div arg[c] ELSE 0

\* C20: the refill loop of a Play(q) runs at most LoopBound iterations, a Play
\* call that holds the lock gives it up, and a caller waiting for the lock
\* gets it.
C20_PlayTerminates ==
  /\ [](\A c \in Callers :
          pc[c] \in {"play_refill", "play_unlock"} => iters[c] <= LoopBound(c))
  /\ \A c \in Callers :
       (pc[c] \in {"play_reclaim", "play_refill", "play_unlock"}) ~> (mutex # {c})
  /\ \A c \in Callers :
       (pc[c] \in {"play_lock", "close_lock"})
         ~> (pc[c] \in {"play_reclaim", "close_stop"})

(***************************************************************************)
(* Claims about the envelope (SpecEnv)                                     *)
(***************************************************************************)
F32LessEq(a, b) == ~F32Less(b, a)

\* C8: the gain every envelope uses for a sample lies in [0.0, 1.0].
C8_GainInUnitRange ==
  \A k \in Notes : F32LessEq(F32Zero, gain[k]) /\ F32LessEq(gain[k], F32One)

\* the key was held past the peak and then released down to the floor
C8_Witness ==
  /\ toggles = 2 /\ ~notes[0]
  /\ held = 4 * AttackTicks
  /\ gain[0] = F32Zero
  /\ dwell > 0

\* C9: on a sample drawn with the key pressed and the peak not yet reached
\* the gain does not decrease; on a sample drawn with the key not pressed the
\* gain does not increase, strictly decreases while above 0 and stays at 0;
\* after more than ReleaseTicks consecutive not-pressed samples it is 0.
C9_Monotone ==
  [][samples' = samples + 1 =>
       \A k \in Notes :
         /\ (notes[k] /\ ~top[k]) => F32LessEq(gain[k], gain'[k])
         /\ ~notes[k] =>
              /\ F32LessEq(gain'[k], gain[k])
              /\ F32Less(F32Zero, gain[k]) => F32Less(gain'[k], gain[k])
              /\ gain[k] = F32Zero => gain'[k] = F32Zero
              /\ dwell' > ReleaseTicks => gain'[k] = F32Zero]_vars

\* the release ramp from the attack's end has reached the floor
C9_Witness ==
  /\ toggles = 2 /\ ~notes[0]
  /\ held = AttackTicks
  /\ dwell > ReleaseTicks
  /\ gain[0] = F32Zero

\* C10: from gain 0, NoteOn(0) and AttackTicks samples leave the gain within
\* one attack step of 1.0 and not yet lowered by the decay; NoteOff(0) and
\* ReleaseTicks samples after that leave it within one release step of 0.0.
C10_AttackRelease ==
  /\ (toggles = 1 /\ notes[0] /\ dwell = AttackTicks) =>
       /\ F32LessEq(F32Sub(F32One, attackd), gain[0])
       /\ F32LessEq(gain[0], F32One)
       /\ top[0] => gain[0] = F32One
  /\ (toggles = 2 /\ ~notes[0] /\ held = AttackTicks /\ dwell = ReleaseTicks) =>
       F32LessEq(gain[0], released)

\* NoteOn(0), AttackTicks samples, NoteOff(0), ReleaseTicks samples
C10_Witness ==
  toggles = 2 /\ ~notes[0] /\ held = AttackTicks /\ dwell = ReleaseTicks

\* C14: on a sample drawn with the key pressed and the peak mark set, the
\* gain drops by dekeyd if it is above sustainlevel and by sustaind otherwise,
\* not below 0; the peak mark stays set and the gain does not rise.
C14_DecaySustain ==
  [][samples' = samples + 1 =>
       \A k \in Notes :
         (notes[k] /\ top[k]) =>
           /\ top'[k]
           /\ LET step == IF F32Less(sustainlevel, gain[k]) THEN dekeyd ELSE sustaind
              IN  gain'[k] = IF F32Less(gain[k], step) THEN F32Zero
                             ELSE F32Sub(gain[k], step)
           /\ F32LessEq(gain'[k], gain[k])]_vars

\* the key was held through decay and sustain until the gain reached the floor
C14_Witness ==
  /\ toggles = 1 /\ notes[0] /\ top[0]
  /\ gain[0] = F32Zero
  /\ dwell > ReleaseTicks

\* C15: on the first sample drawn with the key pressed after samples drawn
\* with it not pressed, the peak mark is clear and the gain becomes the gain
\* the release left plus attackd, or 1.0 if that is above 1.0; it is not less
\* than the gain the release left.
C15_Retrigger ==
  [][(samples' = samples + 1 /\ notes[0] /\ dwell = 0) =>
       /\ ~top[0]
       /\ LET g == F32Add(gain[0], attackd)
          IN  /\ gain'[0] = IF F32Less(F32One, g) THEN F32One ELSE g
              /\ top'[0] = F32Less(F32One, g)
       /\ F32LessEq(gain[0], gain'[0])]_vars

\* a key held past the peak, released for one sample and pressed again has
\* resumed the attack from the gain it had
C15_Witness ==
  /\ toggles = 3 /\ notes[0] /\ dwell = 1
  /\ held = 1
  /\ ~top[0]
  /\ F32Less(sustainlevel, gain[0])

\* C18: the value float32(92767) * f of every sample drawn lies in
\* [-32768, 32767], the range of int16.
C18_SampleInInt16 == -32768 <= scaled /\ scaled <= 32767

(***************************************************************************)
(* Claims about Multiplex (SpecMix)                                        *)
(***************************************************************************)
\* a + b as a real number, not rounded
ExactAdd(a, b) ==
  LET lo == a[2] + b[2]
  IN  <<a[1] + b[1] + (lo \div Limb), lo % Limb>>

\* the real sum of the first n values of o
RECURSIVE ExactSumTo(_, _)
ExactSumTo(o, n) == IF n = 0 THEN F32Zero ELSE ExactAdd(ExactSumTo(o, n - 1), o[n])

\* the float32 sum of the first n values of o, each partial sum rounded
RECURSIVE RoundedSumTo(_, _)
RoundedSumTo(o, n) ==
  IF n = 0 THEN F32Zero ELSE F32Round(ExactAdd(RoundedSumTo(o, n - 1), o[n]))

\* every child has been invoked once per invocation of the Multiplex
EachChildOnce == \A i \in 1 .. Len(fs) : fs[i] = mixTicks

\* C11 as stated: every child is invoked exactly once per invocation, and the
\* value returned is the exact sum of what the children returned.
C11_ExactSum ==
  mixTicks > 0 => (EachChildOnce /\ res = ExactSumTo(outs, Len(outs)))

\* C11: every child is invoked exactly once per invocation, and the value
\* returned is the sum of what the children returned accumulated in child
\* order in float32 (each partial sum rounded to nearest); it is the exact sum
\* when every partial sum is a float32, and 0 when there is no child.
C11_MultiplexSum ==
  mixTicks > 0 =>
    /\ EachChildOnce
    /\ res = RoundedSumTo(outs, Len(outs))
    /\ (\A n \in 1 .. Len(outs) :
          F32Round(ExactSumTo(outs, n)) = ExactSumTo(outs, n))
         => res = ExactSumTo(outs, Len(outs))
    /\ Len(fs) = 0 => res = F32Zero

\* a Multiplex over MaxChildren children has returned a sum that was rounded
C11_Witness ==
  /\ mixTicks = MaxMixTicks
  /\ Len(fs) = MaxChildren
  /\ res # ExactSumTo(outs, Len(outs))

(***************************************************************************)
(* Claims about GenOscillator (SpecOsc)                                    *)
(***************************************************************************)
\* the phase, t taken modulo T, is within one dt of phase 0 on the circle of
\* one period: t <= dt or T - t <= dt
PhaseNearZero ==
  \/ F32LessEq(t, dtFixed)
  \/ F32LessEq(OscT(freq), ExactAdd(t, dtFixed))

\* C13: after round(SampleRate / f) invocations the phase of the oscillator
\* for f differs from its initial phase 0 by at most one dt.
C13_WrapAccuracy == ticks = Period(freq) => PhaseNearZero

====
